---------------------------- MODULE Spec2Model ----------------------------
(***************************************************************************)
(* A model of the data preparation code of semantic_convnets               *)
(* (src/code/data_utils.py): the label taxonomy builder and its pickle     *)
(* cache, the pyramid partition of CIFAR-100 (load_cifar_pyramid) and the  *)
(* normalisation of load_cifar; and of the loaders and the entry points of *)
(* src/code/pipeline.py.                                                   *)
(*                                                                         *)
(* Python values are modelled as follows.  A string is a sequence of       *)
(* one-character strings (<<"f","4">> is 'f4'), so that set('f4') and the  *)
(* lexicographic order of sorted() can be computed.  Python sequences are  *)
(* TLA+ sequences (1-based); lookup tables indexed by a label id are       *)
(* functions on 0..n-1, as in the code.  A label row y[i] is the pair      *)
(* <<fine_id, coarse_id>>.                                                 *)
(***************************************************************************)
EXTENDS Integers, Sequences, FiniteSets, TLC

VARIABLES
    cache,   \* the file coarse_to_fine_map.pickle: NoFile, or its pickled objects
    meta,    \* the file cifar-100-python/meta: the id -> name tables
    pyr,     \* the frame of load_cifar_pyramid
    tax,     \* the last calls of create_coarse_to_fine_map / load_coarse_to_fine_map
    norm,    \* the last calls of load_cifar
    ld,      \* the frame of load_data / load_data_pyramid
    pipe     \* the frame of the entry points of pipeline.py

vars == <<cache, meta, pyr, tax, norm, ld, pipe>>

----------------------------------------------------------------------------
(* Bounds of the model *)

\* the longest bucket of a cached taxonomy
MaxBucket == 6
\* the longest raw training corpus handed to load_cifar_pyramid
MaxTrain == 2
\* the longest raw test corpus
MaxTest == 1

(* Program constants *)

\* fine_labels[:2]
JointCount == 2
\* fine_labels[:4]
GateCount == 4
\* fine_labels[4]
TestOnlyIndex == 4

----------------------------------------------------------------------------
(* Generic helpers *)

Range(s) == {s[k] : k \in DOMAIN s}

Min(a, b) == IF a <= b THEN a ELSE b

\* Python's s[:n]
Take(s, n) == SubSeq(s, 1, Min(n, Len(s)))

\* all sequences over S of length at most n
SeqsUpTo(S, n) == UNION {[1..k -> S] : k \in 0..n}

----------------------------------------------------------------------------
(* Strings *)

\* the characters used by label names, in code point order
Alphabet == <<"0", "1", "2", "3", "4", "5", "6", "7", "8", "9", "a", "b", "c", "f">>

CharCode(ch) == CHOOSE k \in DOMAIN Alphabet : Alphabet[k] = ch

\* Python's a < b on strings: lexicographic, a proper prefix is smaller
RECURSIVE StrLess(_, _)
StrLess(a, b) ==
    IF b = <<>> THEN FALSE
    ELSE IF a = <<>> THEN TRUE
    ELSE IF CharCode(Head(a)) # CharCode(Head(b))
         THEN CharCode(Head(a)) < CharCode(Head(b))
         ELSE StrLess(Tail(a), Tail(b))

\* Python's set(s) of a string s: its one-character strings
CharSet(s) == {<<s[k]>> : k \in DOMAIN s}

\* insertion of x into an ascending sequence
RECURSIVE Insert(_, _)
Insert(x, s) ==
    IF s = <<>> THEN <<x>>
    ELSE IF StrLess(x, Head(s)) THEN <<x>> \o s
    ELSE <<Head(s)>> \o Insert(x, Tail(s))

\* Python's sorted(list(S)) of a set of strings
RECURSIVE Sorted(_)
Sorted(S) ==
    IF S = {} THEN <<>>
    ELSE LET x == CHOOSE e \in S : TRUE IN Insert(x, Sorted(S \ {x}))

----------------------------------------------------------------------------
(* The pickle file *)

\* the file does not exist
NoFile == [exists |-> FALSE, objects |-> <<>>]

\* pickle.dump of a dict of lists: its items, one <<key, value>> after the other
PickleDump(map) == LET keys == Sorted(DOMAIN map)
                   IN  [k \in DOMAIN keys |-> <<keys[k], map[keys[k]]>>]

\* pickle.load of one pickled dict
PickleLoad(blob) ==
    [key \in {blob[k][1] : k \in DOMAIN blob} |->
        LET k == CHOOSE j \in DOMAIN blob : blob[j][1] = key IN blob[k][2]]

\* open(name, 'ab+') followed by one pickle.dump: the object is appended
WriteFileAppend(old, blob) == [exists |-> TRUE, objects |-> Append(old.objects, blob)]

\* open(name, 'wb+') followed by one pickle.dump: the file is truncated
WriteFile(old, blob) == [exists |-> TRUE, objects |-> <<blob>>]

\* open(name, 'ab+'): never fails, a missing file is created empty
OpenAppendUpdate(file) ==
    [raised |-> FALSE, file |-> [exists |-> TRUE, objects |-> file.objects]]

\* open(name, 'rb+'): IOError (no such file) when the file is missing; the mode
\* neither creates nor truncates
OpenReadUpdate(file) == [raised |-> ~file.exists, file |-> file]

\* open(name, 'rb+') followed by one pickle.load: the first object of the file
load_coarse_to_fine_map == PickleLoad(Head(cache.objects))

----------------------------------------------------------------------------
(* The CIFAR-100 meta file and the raw corpus *)

\* the number of fine labels of the meta file: two buckets of the expected size
NumFine == 2 * (TestOnlyIndex + 1)

\* the first fine id of the second coarse class
Start1 == TestOnlyIndex + 1

Digit(k) == Alphabet[k + 1]

\* 'f0' .. 'f9'
TwoCharNames == [k \in 0..(NumFine - 1) |-> <<"f", Digit(k)>>]

\* names of one and two characters, not in id order
MixedNames ==
    [k \in 0..(NumFine - 1) |->
        <<<<"b">>, <<"a", "b">>, <<"a">>, <<"c">>, <<"a", "c">>,
          <<"0">>, <<"1">>, <<"f">>, <<"9">>, <<"2">> >>[k + 1]]

CoarseNames == [k \in 0..1 |-> <<"c", Digit(k)>>]

MetaFiles == {[fine_label_names |-> t, coarse_label_names |-> CoarseNames] :
                 t \in {TwoCharNames, MixedNames}}

\* load_cifar100_label_names(label_type='all')
load_cifar100_label_names == <<meta.fine_label_names, meta.coarse_label_names>>

\* the coarse class of a fine class in the corpus
CoarseOf(fine) == IF fine < Start1 THEN 0 ELSE 1

\* the fine ids of the samples of the modelled corpora
SampleFineIds == {0, 1, GateCount - 1, TestOnlyIndex, Start1}

\* a label matrix of n rows over the sample ids
LabelRows(n) == UNION {[1..k -> {<<f, CoarseOf(f)>> : f \in SampleFineIds}] : k \in 0..n}

\* the image of sample k of a split: an opaque token, distinct for each sample
Images(split, y) == [k \in DOMAIN y |-> <<split, k>>]

\* the taxonomy create_coarse_to_fine_map leaves for a corpus with the first n0
\* fine classes under coarse class 0 and n1 fine classes from Start1 under 1
TaxonomyOf(names, n0, n1) ==
    LET c0 == CoarseNames[0]
        c1 == CoarseNames[1]
        keys == (IF n0 > 0 THEN {c0} ELSE {}) \cup (IF n1 > 0 THEN {c1} ELSE {})
    IN  [c \in keys |->
            IF c = c0 THEN Sorted({names[k] : k \in 0..(n0 - 1)})
                      ELSE Sorted({names[k] : k \in Start1..(Start1 + n1 - 1)})]

Taxonomies(names) ==
    {TaxonomyOf(names, n0, n1) : n0 \in 0..MaxBucket, n1 \in 0..(NumFine - Start1)}

----------------------------------------------------------------------------
(* load_cifar_pyramid *)

\* a Python value compared with the members of a set of strings
StrVal(s) == [t |-> "str", v |-> s]
IntVal(n) == [t |-> "int", v |-> n]

\* x in S for a set S of strings: an int never equals a str
PyIn(x, S) == x.t = "str" /\ x.v \in S

\* fine_labels[:2]
JointMember(fine_labels) == Range(Take(fine_labels, JointCount))

\* fine_labels[:4]
GateMember(fine_labels) == Range(Take(fine_labels, GateCount))

\* set(fine_labels[4]) without the IndexError: a slice never raises
TestOnlyMemberSliced(fine_labels) ==
    [raised |-> FALSE,
     value  |-> UNION {CharSet(fine_labels[k]) :
                          k \in {j \in DOMAIN fine_labels : j = TestOnlyIndex + 1}}]

\* set(fine_labels[4]): IndexError on a list of at most 4 entries
TestOnlyMember(fine_labels) ==
    IF Len(fine_labels) > TestOnlyIndex
    THEN [raised |-> FALSE, value |-> CharSet(fine_labels[TestOnlyIndex + 1])]
    ELSE [raised |-> TRUE, value |-> {}]

\* the frame before the call and after an exception (the locals are gone)
PyrFrame(pc, exc) ==
    [pc |-> pc, exc |-> exc,
     X_train |-> <<>>, y_train |-> <<>>, X_test |-> <<>>, y_test |-> <<>>,
     fine_label_names |-> <<>>, coarse_to_fine_map |-> <<>>,
     fine_labels_joint |-> {}, fine_labels_gate |-> {}, fine_labels_only_test |-> {},
     i |-> 0,
     X_train_joint |-> <<>>, y_train_joint |-> <<>>,
     X_train_gate |-> <<>>, y_train_gate |-> <<>>,
     fine_or_coarse_train_gate |-> <<>>, fine_or_coarse_test |-> <<>>]

\* fine_label = fine_label_names[y_train[i, 0]]
TrainFineLabel(f, row) == StrVal(f.fine_label_names[row[1]])

\* fine_label = y_test[i, 0]
TestFineLabel(f, row) == IntVal(row[1])

\* if fine_label in fine_labels_gate (the condition the joint list should not use)
JointTestByGate(f, fine_label) == PyIn(fine_label, f.fine_labels_gate)

\* if fine_label in fine_labels_joint
JointTest(f, fine_label) == PyIn(fine_label, f.fine_labels_joint)

\* if fine_label in fine_labels_gate
GateTest(f, fine_label) == PyIn(fine_label, f.fine_labels_gate)

\* the routing flag with its branches exchanged
GateFlagSwapped(f, fine_label) == IF PyIn(fine_label, f.fine_labels_joint) THEN 1 ELSE 0

\* the routing flag of a gate sample
GateFlag(f, fine_label) == IF PyIn(fine_label, f.fine_labels_joint) THEN 0 ELSE 1

\* the routing flag of a test sample
TestFlag(f, fine_label) == IF PyIn(fine_label, f.fine_labels_joint) THEN 0 ELSE 1

\* lines 205-218: read the corpus, the cached taxonomy and the name tables, and
\* build the three label sets
BuildLabelSets ==
    /\ pyr.pc = "start"
    /\ \/ /\ OpenReadUpdate(cache).raised
          /\ pyr' = PyrFrame("raised", "IOError")
       \/ /\ ~OpenReadUpdate(cache).raised
          /\ OpenReadUpdate(cache).file.objects = <<>>
          /\ pyr' = PyrFrame("raised", "EOFError")
       \/ /\ ~OpenReadUpdate(cache).raised
          /\ OpenReadUpdate(cache).file.objects # <<>>
          /\ LET map == load_coarse_to_fine_map
                 names == load_cifar100_label_names[1]
             IN  \/ /\ \E c \in DOMAIN map : TestOnlyMember(map[c]).raised
                    /\ pyr' = PyrFrame("raised", "IndexError")
                 \/ /\ \A c \in DOMAIN map : ~TestOnlyMember(map[c]).raised
                    /\ \E y_train \in LabelRows(MaxTrain), y_test \in LabelRows(MaxTest) :
                         pyr' = [PyrFrame("train", "none") EXCEPT
                            !.X_train = Images("train", y_train),
                            !.y_train = y_train,
                            !.X_test = Images("test", y_test),
                            !.y_test = y_test,
                            !.fine_label_names = names,
                            !.coarse_to_fine_map = map,
                            !.fine_labels_joint =
                                UNION {JointMember(map[c]) : c \in DOMAIN map},
                            !.fine_labels_gate =
                                UNION {GateMember(map[c]) : c \in DOMAIN map},
                            !.fine_labels_only_test =
                                UNION {TestOnlyMember(map[c]).value : c \in DOMAIN map}]
    /\ cache' = OpenReadUpdate(cache).file
    /\ UNCHANGED <<meta, tax, norm, ld, pipe>>

\* lines 226-237: one iteration of the loop over the training samples
TrainStep ==
    /\ pyr.pc = "train"
    /\ pyr.i < Len(pyr.X_train)
    /\ LET k == pyr.i + 1
           fine_label == TrainFineLabel(pyr, pyr.y_train[k])
           joint == JointTest(pyr, fine_label)
           gate == GateTest(pyr, fine_label)
       IN  pyr' = [pyr EXCEPT
              !.i = k,
              !.X_train_joint = IF joint THEN Append(@, pyr.X_train[k]) ELSE @,
              !.y_train_joint = IF joint THEN Append(@, pyr.y_train[k]) ELSE @,
              !.X_train_gate = IF gate THEN Append(@, pyr.X_train[k]) ELSE @,
              !.y_train_gate = IF gate THEN Append(@, pyr.y_train[k]) ELSE @,
              !.fine_or_coarse_train_gate =
                   IF gate THEN Append(@, GateFlag(pyr, fine_label)) ELSE @]
    /\ UNCHANGED <<cache, meta, tax, norm, ld, pipe>>

\* lines 239-246: the training loop is over; the lists become arrays
TrainDone ==
    /\ pyr.pc = "train"
    /\ pyr.i = Len(pyr.X_train)
    /\ pyr' = [pyr EXCEPT !.pc = "test", !.i = 0]
    /\ UNCHANGED <<cache, meta, tax, norm, ld, pipe>>

\* the loop over the test samples written like the training loop: a sample whose
\* label is not in the joint set is dropped from the test arrays
TestStepFiltering ==
    /\ pyr.pc = "test"
    /\ pyr.i < Len(pyr.X_test)
    /\ LET k == pyr.i + 1
           fine_label == TestFineLabel(pyr, pyr.y_test[k])
           Without(s) == SubSeq(s, 1, k - 1) \o SubSeq(s, k + 1, Len(s))
       IN  pyr' = IF TestFlag(pyr, fine_label) = 0
                  THEN [pyr EXCEPT !.i = k, !.fine_or_coarse_test = Append(@, 0)]
                  ELSE [pyr EXCEPT !.X_test = Without(@), !.y_test = Without(@)]
    /\ UNCHANGED <<cache, meta, tax, norm, ld, pipe>>

\* lines 248-253: one iteration of the loop over the test samples
TestStep ==
    /\ pyr.pc = "test"
    /\ pyr.i < Len(pyr.X_test)
    /\ LET k == pyr.i + 1
           fine_label == TestFineLabel(pyr, pyr.y_test[k])
       IN  pyr' = [pyr EXCEPT
              !.i = k,
              !.fine_or_coarse_test = Append(@, TestFlag(pyr, fine_label))]
    /\ UNCHANGED <<cache, meta, tax, norm, ld, pipe>>

\* lines 255-257: return the eight outputs
PyramidReturn ==
    /\ pyr.pc = "test"
    /\ pyr.i = Len(pyr.X_test)
    /\ pyr' = [pyr EXCEPT !.pc = "done"]
    /\ UNCHANGED <<cache, meta, tax, norm, ld, pipe>>

\* the frame of the taxonomy functions: the function called last (op), where it
\* is (pc), its locals and its return value (result); saved is the mapping handed
\* to the last pickle.dump, and dropped tells whether that dump replaced a file
\* holding a coarse key the new mapping lacks
TaxFrame(op, pc, exc, y_train, y_test, result, saved, dropped) ==
    [op |-> op, pc |-> pc, exc |-> exc, y_train |-> y_train, y_test |-> y_test,
     result |-> result, saved |-> saved, dropped |-> dropped]

\* no call of the taxonomy functions or of load_cifar has been made
TaxIdle == TaxFrame("none", "idle", "none", <<>>, <<>>, <<>>, <<>>, FALSE)
NormIdle ==
    [pc |-> "start", exc |-> "none", dataset |-> "", raw_train |-> <<>>, raw_test |-> <<>>,
     num_training |-> 0, num_validation |-> 0, num_test |-> 0, normalize |-> FALSE,
     mean_image |-> <<>>, std_deviation |-> <<>>,
     X_train |-> <<>>, y_train |-> <<>>, X_val |-> <<>>, y_val |-> <<>>,
     X_test |-> <<>>, y_test |-> <<>>, again |-> <<>>]

\* no loader has been called
LoaderIdle ==
    [fn |-> "none", pc |-> "idle", exc |-> "none", dataset |-> "none",
     return_subset |-> "none", loaded |-> "none", bound |-> FALSE,
     unrecognised |-> FALSE, after |-> 0, normalized |-> FALSE, stages |-> <<>>,
     value |-> <<>>]

\* no entry point has been called
PipeIdle ==
    [entry |-> "none", pc |-> "idle", exc |-> "none", mode |-> "none",
     model_id |-> "none", dataset |-> "none", checkpoint_model_id |-> "none",
     stages |-> <<>>, load_model |-> <<>>]

InitPyr ==
    /\ meta \in MetaFiles
    /\ cache \in {NoFile} \cup
                 {WriteFile(NoFile, PickleDump(T)) : T \in Taxonomies(meta.fine_label_names)}
    /\ pyr = PyrFrame("start", "none")
    /\ tax = TaxIdle
    /\ norm = NormIdle
    /\ ld = LoaderIdle
    /\ pipe = PipeIdle

NextPyr == BuildLabelSets \/ TrainStep \/ TrainDone \/ TestStep \/ PyramidReturn

SpecPyr == InitPyr /\ [][NextPyr]_vars

----------------------------------------------------------------------------
(* create_coarse_to_fine_map and load_coarse_to_fine_map *)

\* the fine ids and the label rows of the corpora read by the taxonomy builder:
\* every fine id may occur under every coarse id
TaxFineIds == {1, 2}
TaxRows == {<<f, c>> : f \in TaxFineIds, c \in DOMAIN CoarseNames}

\* lines 357-362 with a list per coarse label: the names in first-seen order
RECURSIVE ScanFirstSeen(_, _, _, _)
ScanFirstSeen(map, y, fine_label_names, coarse_label_names) ==
    IF y = <<>> THEN map
    ELSE LET coarse_label == coarse_label_names[Head(y)[2]]
             fine_label == fine_label_names[Head(y)[1]]
             old == IF coarse_label \in DOMAIN map THEN map[coarse_label] ELSE <<>>
             new == IF fine_label \in Range(old) THEN old ELSE Append(old, fine_label)
         IN  ScanFirstSeen([k \in DOMAIN map \cup {coarse_label} |->
                               IF k = coarse_label THEN new ELSE map[k]],
                           Tail(y), fine_label_names, coarse_label_names)

\* lines 357-362: the pass over the training samples; map is a defaultdict(set),
\* a coarse label becomes a key when it is first looked up
RECURSIVE ScanTrain(_, _, _, _)
ScanTrain(map, y, fine_label_names, coarse_label_names) ==
    IF y = <<>> THEN map
    ELSE LET coarse_label == coarse_label_names[Head(y)[2]]
             fine_label == fine_label_names[Head(y)[1]]
             old == IF coarse_label \in DOMAIN map THEN map[coarse_label] ELSE {}
             new == IF fine_label \notin old THEN old \cup {fine_label} ELSE old
         IN  ScanTrain([k \in DOMAIN map \cup {coarse_label} |->
                           IF k = coarse_label THEN new ELSE map[k]],
                       Tail(y), fine_label_names, coarse_label_names)

\* lines 364-365: every bucket becomes its sorted list
SortBuckets(map) == [k \in DOMAIN map |-> Sorted(map[k])]

\* the mapping built from the first-seen lists, left unsorted
CreateMapUnsorted(y_train, fine_label_names, coarse_label_names) ==
    ScanFirstSeen(<<>>, y_train, fine_label_names, coarse_label_names)

\* lines 350-365: the mapping create_coarse_to_fine_map builds
CreateMap(y_train, fine_label_names, coarse_label_names) ==
    SortBuckets(ScanTrain(<<>>, y_train, fine_label_names, coarse_label_names))

\* line 351: create_coarse_to_fine_map reads the corpus
CreateRead ==
    /\ tax.pc \in {"idle", "returned", "raised"}
    /\ \E y_train \in SeqsUpTo(TaxRows, MaxTrain), y_test \in SeqsUpTo(TaxRows, MaxTest) :
          tax' = TaxFrame("create", "read", "none", y_train, y_test, <<>>,
                          tax.saved, tax.dropped)
    /\ UNCHANGED <<cache, meta, pyr, norm, ld, pipe>>

\* lines 352-369: build the mapping, dump it to the cache file and return it
CreateBuild ==
    /\ tax.op = "create" /\ tax.pc = "read"
    /\ LET names == load_cifar100_label_names
           map == CreateMap(tax.y_train, names[1], names[2])
       IN  /\ cache' = WriteFile(cache, PickleDump(map))
           /\ tax' = TaxFrame("create", "returned", "none", <<>>, <<>>, map, map,
                       cache.exists /\
                       DOMAIN PickleLoad(Head(cache.objects)) \ DOMAIN map # {})
    /\ UNCHANGED <<meta, pyr, norm, ld, pipe>>

\* lines 344-346: load_coarse_to_fine_map
LoadMap ==
    /\ tax.pc \in {"idle", "returned", "raised"}
    /\ \/ /\ OpenReadUpdate(cache).raised
          /\ tax' = TaxFrame("load", "raised", "IOError", <<>>, <<>>, <<>>,
                             tax.saved, tax.dropped)
       \/ /\ ~OpenReadUpdate(cache).raised
          /\ OpenReadUpdate(cache).file.objects = <<>>
          /\ tax' = TaxFrame("load", "raised", "EOFError", <<>>, <<>>, <<>>,
                             tax.saved, tax.dropped)
       \/ /\ ~OpenReadUpdate(cache).raised
          /\ OpenReadUpdate(cache).file.objects # <<>>
          /\ tax' = TaxFrame("load", "returned", "none", <<>>, <<>>,
                             load_coarse_to_fine_map, tax.saved, tax.dropped)
    /\ cache' = OpenReadUpdate(cache).file
    /\ UNCHANGED <<meta, pyr, norm, ld, pipe>>

InitTax ==
    /\ meta \in MetaFiles
    /\ cache = NoFile
    /\ pyr = PyrFrame("start", "none")
    /\ tax = TaxIdle
    /\ norm = NormIdle
    /\ ld = LoaderIdle
    /\ pipe = PipeIdle

NextTax == CreateRead \/ CreateBuild \/ LoadMap

SpecTax == InitTax /\ [][NextTax]_vars

\* lines 205-208 of load_cifar_pyramid called while the cache file is missing
PyramidWithoutCache == ~cache.exists /\ BuildLabelSets

\* the taxonomy functions, and load_cifar_pyramid as long as there is no cache
\* file, starting without a cache file
NextMissing == LoadMap \/ PyramidWithoutCache \/ CreateRead \/ CreateBuild

SpecMissing == InitTax /\ [][NextMissing]_vars

----------------------------------------------------------------------------
(* Exact arithmetic for the statistics of load_cifar *)

\* 1e-8 is 1 / EpsInv
EpsInv == 100000000

Abs(a) == IF a < 0 THEN -a ELSE a

RECURSIVE GCD(_, _)
GCD(a, b) == IF b = 0 THEN a ELSE GCD(b, a % b)

\* the rational n/d, d > 0, in lowest terms
Rat(n, d) == LET g == GCD(Abs(n), d) IN <<n \div g, d \div g>>

RatSub(a, b) == Rat(a[1] * b[2] - b[1] * a[2], a[2] * b[2])

EPSILON == Rat(1, EpsInv)

RECURSIVE SumSeq(_)
SumSeq(s) == IF s = <<>> THEN 0 ELSE Head(s) + SumSeq(Tail(s))

\* the largest k with k*k dividing d: sqrt(d) = k * sqrt(d / (k*k))
SquarePart(d) ==
    CHOOSE k \in 1..d : /\ d % (k * k) = 0
                        /\ \A j \in (k + 1)..d : d % (j * j) # 0

\* the real number (sum of c * sqrt(s) over the pairs <<s, c>> of terms) / den, with
\* every s square-free, every c > 0 and no common factor: a canonical form, since
\* the square roots of distinct square-free numbers are linearly independent
Surd(radicands, den) ==
    LET pos == {p \in DOMAIN radicands : radicands[p] > 0}
        root(p) == SquarePart(radicands[p])
        free(p) == radicands[p] \div (root(p) * root(p))
        coef(s) == SumSeq([p \in DOMAIN radicands |->
                              IF p \in pos /\ free(p) = s THEN root(p) ELSE 0])
        terms == {<<free(p), coef(free(p))>> : p \in pos}
        RECURSIVE GcdAll(_, _)
        GcdAll(T, g) == IF T = {} THEN g
                        ELSE LET t == CHOOSE t \in T : TRUE
                             IN  GcdAll(T \ {t}, GCD(t[2], g))
        g == GcdAll(terms, den)
    IN  IF pos = {} THEN [terms |-> {}, den |-> 1]
        ELSE [terms |-> {<<t[1], t[2] \div g>> : t \in terms}, den |-> den \div g]

SurdIsZero(x) == x.terms = {}

----------------------------------------------------------------------------
(* load_cifar *)

\* the raw images: one value for each pixel position
PixelPositions == {1, 2}
PixelValues == {0, 1}
RawImages == [PixelPositions -> PixelValues]

\* the raw corpora: at least one training image
RawTrainSets == SeqsUpTo(RawImages, MaxTrain) \ {<<>>}
RawTestSets == SeqsUpTo(RawImages, MaxTest)

\* the label rows the loaders attach to the images
RawLabels(dataset, X) == [k \in DOMAIN X |-> IF dataset = "cifar10" THEN 0 ELSE <<0, 0>>]

\* the values of pixel position p over the samples
Column(X, p) == [k \in DOMAIN X |-> X[k][p]]

\* np.mean(X_train): the mean of all pixels of all samples
MeanImage(X) ==
    Rat(SumSeq([k \in DOMAIN X |-> SumSeq(X[k])]), Len(X) * Cardinality(PixelPositions))

\* n*n times the variance of a column: n * sum(x*x) - sum(x)^2
Radicand(col) ==
    Len(col) * SumSeq([k \in DOMAIN col |-> col[k] * col[k]]) - SumSeq(col) * SumSeq(col)

\* np.mean(np.std(X_train, axis=0)): the mean over the pixel positions of the
\* standard deviation over the samples, sqrt(Radicand) / n
StdDeviation(X) ==
    Surd([p \in PixelPositions |-> Radicand(Column(X, p))],
         Len(X) * Cardinality(PixelPositions))

\* X[mask] for mask = range(from, from + count), 0-based
Slice(X, from, count) == [k \in 1..count |-> X[from + k]]

\* x - mean_image, then / std_deviation without the EPSILON
NormalizedNoEpsilon(x, mean_image, std_deviation) ==
    [num |-> RatSub(Rat(x, 1), mean_image),
     div |-> [scale |-> std_deviation, eps |-> Rat(0, 1)]]

\* lines 162-168 on one pixel: x - mean_image, then / (std_deviation + EPSILON)
Normalized(x, mean_image, std_deviation) ==
    [num |-> RatSub(Rat(x, 1), mean_image),
     div |-> [scale |-> std_deviation, eps |-> EPSILON]]

\* lines 162-168 on one split
NormalizedSplit(X, mean_image, std_deviation) ==
    [k \in DOMAIN X |->
        [p \in PixelPositions |-> Normalized(X[k][p], mean_image, std_deviation)]]

LoadCifarRaised(exc) == [NormIdle EXCEPT !.pc = "raised", !.exc = exc]

\* load_cifar, lines 137-171
LoadCifar ==
    /\ norm.pc = "start"
    /\ \E dataset \in {"cifar10", "cifar100", "mnist"},
          raw_train \in RawTrainSets, raw_test \in RawTestSets,
          num_training \in 0..MaxTrain, num_validation \in 0..MaxTrain,
          num_test \in 0..MaxTest, normalize \in BOOLEAN :
         IF dataset \notin {"cifar10", "cifar100"}
         THEN norm' = LoadCifarRaised("AssertionError")
         ELSE IF \/ num_training + num_validation > Len(raw_train)
                 \/ num_test > Len(raw_test)
         THEN norm' = LoadCifarRaised("IndexError")
         ELSE LET mean_image == MeanImage(raw_train)
                  std_deviation == StdDeviation(raw_train)
                  y_train == RawLabels(dataset, raw_train)
                  y_test == RawLabels(dataset, raw_test)
                  X_val == Slice(raw_train, num_training, num_validation)
                  X_train == Slice(raw_train, 0, num_training)
                  X_test == Slice(raw_test, 0, num_test)
                  out(X) == IF normalize
                            THEN NormalizedSplit(X, mean_image, std_deviation)
                            ELSE X
              IN  norm' = [NormIdle EXCEPT
                     !.pc = "done", !.dataset = dataset,
                     !.raw_train = raw_train, !.raw_test = raw_test,
                     !.num_training = num_training, !.num_validation = num_validation,
                     !.num_test = num_test, !.normalize = normalize,
                     !.mean_image = mean_image, !.std_deviation = std_deviation,
                     !.X_train = out(X_train),
                     !.y_train = Slice(y_train, 0, num_training),
                     !.X_val = out(X_val),
                     !.y_val = Slice(y_train, num_training, num_validation),
                     !.X_test = out(X_test),
                     !.y_test = Slice(y_test, 0, num_test)]
    /\ UNCHANGED <<cache, meta, pyr, tax, ld, pipe>>

\* a second run of lines 139-146 with the same arguments, on a corpus that differs
\* from the first only outside its training split: in training samples from
\* index num_training on, or in test samples
LoadCifarAgain ==
    /\ norm.pc = "done"
    /\ \E raw_train \in RawTrainSets, raw_test \in RawTestSets :
         /\ Len(raw_train) = Len(norm.raw_train)
         /\ Len(raw_test) = Len(norm.raw_test)
         /\ \A k \in 1..norm.num_training : raw_train[k] = norm.raw_train[k]
         /\ norm' = [norm EXCEPT
               !.pc = "again",
               !.again = [raw_train |-> raw_train, raw_test |-> raw_test,
                          mean_image |-> MeanImage(raw_train),
                          std_deviation |-> StdDeviation(raw_train)]]
    /\ UNCHANGED <<cache, meta, pyr, tax, ld, pipe>>

InitNorm ==
    /\ meta = [fine_label_names |-> TwoCharNames, coarse_label_names |-> CoarseNames]
    /\ cache = NoFile
    /\ pyr = PyrFrame("start", "none")
    /\ tax = TaxIdle
    /\ norm = NormIdle
    /\ ld = LoaderIdle
    /\ pipe = PipeIdle

NextNorm == LoadCifar

SpecNorm == InitNorm /\ [][NextNorm]_vars

NextNormTwice == LoadCifar \/ LoadCifarAgain

SpecNormTwice == InitNorm /\ [][NextNormTwice]_vars

----------------------------------------------------------------------------
(* load_data and load_data_pyramid, of pipeline.py and of data_utils.py *)

\* the dataset names handed to the loaders; "None" is Python's None, the dataset
\* of model 'simple_cnn_cifar100_joint'
DatasetNames ==
    {"cifar10", "cifar100_coarse", "cifar100_fine", "cifar100_joint",
     "cifar100_joint_fine_only", "cifar100_joint_prefeaturized", "mnist", "None"}

ReturnSubsets == {"all", "joint_only", "gate_only", "test_only", "val_only"}

LoaderNames ==
    {"pipeline.load_data", "pipeline.load_data_pyramid",
     "data_utils.load_data", "data_utils.load_data_pyramid"}

\* the names that the if / elif chain of a loader has a branch for
Recognised(fn) ==
    CASE fn = "pipeline.load_data" -> {"cifar10", "cifar100_coarse", "cifar100_fine"}
      [] fn = "data_utils.load_data" ->
            {"cifar10", "cifar100_coarse", "cifar100_fine", "cifar100_joint_fine_only"}
      [] fn = "pipeline.load_data_pyramid" -> {"cifar100_joint"}
      [] fn = "data_utils.load_data_pyramid" ->
            {"cifar100_joint", "cifar100_joint_prefeaturized"}

\* the frame of a loader that has just been called
LoaderFrame(fn, dataset, return_subset) ==
    [LoaderIdle EXCEPT !.fn = fn, !.pc = "dispatch", !.dataset = dataset,
                       !.return_subset = return_subset]

\* the frame after an uncaught exception
LoaderRaised(f, exc) == [f EXCEPT !.pc = "raised", !.exc = exc]

\* load_cifar(num_training=.., num_validation=0, num_test=.., dataset=..): normalize
\* keeps its default, True
AfterLoadCifar(f) ==
    [f EXCEPT !.pc = "post", !.loaded = "load_cifar", !.normalized = TRUE,
              !.stages = @ \o <<"load_cifar", "normalize">>]

\* pipeline.py lines 149-169: the if / elif chain of load_data
PipelineLoadData ==
    /\ ld.fn = "pipeline.load_data" /\ ld.pc = "dispatch"
    /\ ld' = IF ld.dataset \in {"cifar10", "cifar100_coarse", "cifar100_fine"}
             THEN AfterLoadCifar(ld)
             ELSE LoaderRaised([ld EXCEPT !.unrecognised = TRUE], "SystemExit")
    /\ UNCHANGED <<cache, meta, pyr, tax, norm, pipe>>

\* data_utils.py lines 45-76: the if / elif chain of load_data
DataUtilsLoadData ==
    /\ ld.fn = "data_utils.load_data" /\ ld.pc = "dispatch"
    /\ ld' = IF ld.dataset \in {"cifar10", "cifar100_coarse", "cifar100_fine"}
             THEN AfterLoadCifar(ld)
             ELSE IF ld.dataset = "cifar100_joint_fine_only"
             THEN [ld EXCEPT !.pc = "pyramid"]
             ELSE LoaderRaised([ld EXCEPT !.unrecognised = TRUE], "SystemExit")
    /\ UNCHANGED <<cache, meta, pyr, tax, norm, pipe>>

\* pipeline.py lines 179-183: the else branch only prints
PipelineLoadDataPyramid ==
    /\ ld.fn = "pipeline.load_data_pyramid" /\ ld.pc = "dispatch"
    /\ ld' = IF ld.dataset = "cifar100_joint"
             THEN [ld EXCEPT !.pc = "pyramid"]
             ELSE [ld EXCEPT !.pc = "select", !.unrecognised = TRUE]
    /\ UNCHANGED <<cache, meta, pyr, tax, norm, pipe>>

\* data_utils.py lines 90-97: the else branch raises; the prefeaturized file is
\* read with pickle.load(open(..)), which fails when the file is missing
DataUtilsLoadDataPyramid ==
    /\ ld.fn = "data_utils.load_data_pyramid" /\ ld.pc = "dispatch"
    /\ \E found \in BOOLEAN :
         ld' = IF ld.dataset = "cifar100_joint"
               THEN [ld EXCEPT !.pc = "pyramid"]
               ELSE IF ld.dataset = "cifar100_joint_prefeaturized"
               THEN IF found
                    THEN [ld EXCEPT !.pc = "select", !.bound = TRUE,
                                    !.loaded = "load_cifar100_prefeaturized",
                                    !.stages = @ \o <<"load_cifar100_prefeaturized">>]
                    ELSE LoaderRaised(ld, "IOError")
               ELSE LoaderRaised([ld EXCEPT !.unrecognised = TRUE], "Exception")
    /\ UNCHANGED <<cache, meta, pyr, tax, norm, pipe>>

\* the steps of load_cifar_pyramid inside a loader
PyramidRun ==
    /\ ld.pc = "pyramid"
    /\ NextPyr

\* load_cifar_pyramid has returned its eight outputs or raised
PyramidBack ==
    /\ ld.pc = "pyramid"
    /\ pyr.pc \in {"done", "raised"}
    /\ ld' = IF pyr.pc = "raised" THEN LoaderRaised(ld, pyr.exc)
             ELSE [ld EXCEPT
                     !.pc = IF ld.fn = "data_utils.load_data" THEN "post" ELSE "select",
                     !.bound = TRUE, !.loaded = "load_cifar_pyramid",
                     !.stages = @ \o <<"load_cifar_train_test", "load_coarse_to_fine_map",
                                       "partition">>]
    /\ UNCHANGED <<cache, meta, pyr, tax, norm, pipe>>

\* the names returned for a value of return_subset
SubsetNames(return_subset) ==
    CASE return_subset = "all" ->
            <<"X_train_joint", "y_train_joint", "X_train_gate", "y_train_gate",
              "fine_or_coarse_train_gate", "X_test", "y_test", "fine_or_coarse_test">>
      [] return_subset = "joint_only" -> <<"X_train_joint", "y_train_joint">>
      [] return_subset = "gate_only" ->
            <<"X_train_gate", "y_train_gate", "fine_or_coarse_train_gate">>
      [] return_subset = "test_only" -> <<"X_test", "y_test", "fine_or_coarse_test">>
      [] OTHER -> <<"None">>

\* pipeline.py lines 184-191, data_utils.py lines 99-106: the chain over
\* return_subset; reading a local that was never bound raises UnboundLocalError,
\* and falling off the end returns None
SelectSubset ==
    /\ ld.pc = "select"
    /\ LET f == [ld EXCEPT !.after = IF ld.unrecognised THEN @ + 1 ELSE @]
       IN  ld' = IF ld.return_subset \in {"all", "joint_only", "gate_only", "test_only"}
                    /\ ~ld.bound
                 THEN LoaderRaised(f, "UnboundLocalError")
                 ELSE [f EXCEPT !.pc = "returned",
                                !.value = SubsetNames(ld.return_subset)]
    /\ UNCHANGED <<cache, meta, pyr, tax, norm, pipe>>

\* DATASET_TO_N_CLASSES of pipeline.py
DATASET_TO_N_CLASSES == {"cifar10", "cifar100_coarse", "cifar100_fine"}

\* pipeline.py lines 170-175, data_utils.py lines 77-82: the class count, shuffle
\* and to_categorical of both splits, return.  data_utils.py takes the table from
\* the module constants, which may or may not have the key of the joint corpus
LoadDataFinish ==
    /\ ld.pc = "post"
    /\ \E has_key \in BOOLEAN :
         ld' = IF \/ ld.dataset \in DATASET_TO_N_CLASSES
                  \/ ld.fn = "data_utils.load_data" /\ has_key
               THEN [ld EXCEPT !.pc = "returned",
                               !.stages = @ \o <<"shuffle", "to_categorical">>,
                               !.value = <<"X", "Y", "X_test", "Y_test">>]
               ELSE LoaderRaised(ld, "KeyError")
    /\ UNCHANGED <<cache, meta, pyr, tax, norm, pipe>>

\* a script calls one of the loaders
CallLoader ==
    /\ pipe.pc = "idle"
    /\ \E fn \in LoaderNames, dataset \in DatasetNames, return_subset \in ReturnSubsets :
         ld' = LoaderFrame(fn, dataset,
                           IF fn \in {"pipeline.load_data", "data_utils.load_data"}
                           THEN "none" ELSE return_subset)
    /\ pipe' = [PipeIdle EXCEPT !.entry = "direct", !.pc = "loader"]
    /\ UNCHANGED <<cache, meta, pyr, tax, norm>>

NextLoader ==
    \/ PipelineLoadData \/ DataUtilsLoadData
    \/ PipelineLoadDataPyramid \/ DataUtilsLoadDataPyramid
    \/ PyramidRun \/ PyramidBack \/ SelectSubset \/ LoadDataFinish

----------------------------------------------------------------------------
(* The entry points of pipeline.py *)

\* ALL_MODEL_DICTS: the network type and the dataset of every model id
ALL_MODEL_DICTS ==
    [id \in {"simple_cnn", "simple_cnn_cifar100_joint", "simple_cnn_cifar100_coarse",
             "simple_cnn_cifar100_fine", "simple_cnn_extended1_cifar100_fine",
             "lenet_cnn_cifar100_coarse", "vggnet_cnn_cifar100_coarse",
             "lenet_cnn_cifar100_fine", "vggnet_cnn_cifar100_fine", "pyramid_cifar100"} |->
        CASE id = "simple_cnn" -> [network_type |-> "simple_cnn", dataset |-> "cifar10"]
          [] id = "simple_cnn_cifar100_joint" ->
                [network_type |-> "simple_cnn", dataset |-> "None"]
          [] id = "simple_cnn_cifar100_coarse" ->
                [network_type |-> "simple_cnn", dataset |-> "cifar100_coarse"]
          [] id = "simple_cnn_cifar100_fine" ->
                [network_type |-> "simple_cnn", dataset |-> "cifar100_fine"]
          [] id = "simple_cnn_extended1_cifar100_fine" ->
                [network_type |-> "simple_cnn_extended1", dataset |-> "cifar100_fine"]
          [] id = "lenet_cnn_cifar100_coarse" ->
                [network_type |-> "lenet_cnn", dataset |-> "cifar100_coarse"]
          [] id = "vggnet_cnn_cifar100_coarse" ->
                [network_type |-> "vggnet_cnn", dataset |-> "cifar100_coarse"]
          [] id = "lenet_cnn_cifar100_fine" ->
                [network_type |-> "lenet_cnn", dataset |-> "cifar100_fine"]
          [] id = "vggnet_cnn_cifar100_fine" ->
                [network_type |-> "vggnet_cnn", dataset |-> "cifar100_fine"]
          [] id = "pyramid_cifar100" ->
                [network_type |-> "pyramid", dataset |-> "cifar100_joint"]]

\* the values of the command line options -t and -m; without -t the mode is
\* 'train', without -m the model id is 'simple_cnn'
Modes == {"train", "test", "eval"}
ModelIds == DOMAIN ALL_MODEL_DICTS \cup {"resnet"}

\* line 85: assert (is_training ^ get_hidden_reps)
LoadModelAssertion(is_training, get_hidden_reps) == is_training # get_hidden_reps

\* a call load_model(.., is_training=.., get_hidden_reps=..) made in frame f and
\* what follows it when the assertion passes
CallLoadModel(f, is_training, get_hidden_reps, then) ==
    LET called == [f EXCEPT !.load_model =
                      Append(@, [is_training |-> is_training,
                                 get_hidden_reps |-> get_hidden_reps])]
    IN  IF LoadModelAssertion(is_training, get_hidden_reps)
        THEN [called EXCEPT !.pc = then, !.stages = @ \o <<"load_model">>]
        ELSE [called EXCEPT !.pc = "raised", !.exc = "AssertionError"]

\* lines 285-295: main
Main ==
    /\ pipe.pc = "idle"
    /\ \E mode \in Modes, model_id \in ModelIds :
       \E checkpoint_model_id \in {"None", model_id} :
         LET f == [PipeIdle EXCEPT !.entry = "main", !.mode = mode,
                                  !.model_id = model_id,
                                  !.checkpoint_model_id = checkpoint_model_id]
         IN  pipe' =
               IF model_id \notin DOMAIN ALL_MODEL_DICTS
               THEN [f EXCEPT !.pc = "raised", !.exc = "KeyError"]
               ELSE LET g == [f EXCEPT !.dataset = ALL_MODEL_DICTS[model_id].dataset]
                    IN  IF mode = "train"
                        THEN IF model_id = "pyramid_cifar100"
                             THEN [g EXCEPT !.pc = "train_pyramid_model"]
                             ELSE [g EXCEPT !.pc = "train_model"]
                        ELSE IF mode = "test"
                        THEN [g EXCEPT !.pc = "test_model"]
                        ELSE [g EXCEPT !.pc = "returned"]
    /\ UNCHANGED <<cache, meta, pyr, tax, norm, ld>>

\* lines 196-205: train_model up to the call of load_data
TrainModelLoadModel ==
    /\ pipe.pc = "train_model"
    /\ IF pipe.dataset \notin DATASET_TO_N_CLASSES
       THEN /\ pipe' = [pipe EXCEPT !.pc = "raised", !.exc = "KeyError"]
            /\ ld' = ld
       ELSE /\ pipe' = CallLoadModel(pipe, TRUE, FALSE, "train_model_data")
            /\ ld' = IF pipe'.pc = "train_model_data"
                     THEN LoaderFrame("pipeline.load_data", pipe.dataset, "none")
                     ELSE ld
    /\ UNCHANGED <<cache, meta, pyr, tax, norm>>

\* lines 205-208: load_data is back; model.fit
TrainModelFit ==
    /\ pipe.pc = "train_model_data"
    /\ ld.pc \in {"returned", "raised"}
    /\ pipe' = IF ld.pc = "raised"
               THEN [pipe EXCEPT !.pc = "raised", !.exc = ld.exc]
               ELSE [pipe EXCEPT !.pc = "fit", !.stages = @ \o ld.stages \o <<"fit">>]
    /\ UNCHANGED <<cache, meta, pyr, tax, norm, ld>>

\* lines 212-214: train_pyramid_model calls load_data_pyramid
TrainPyramidLoadData ==
    /\ pipe.pc = "train_pyramid_model"
    /\ pipe' = [pipe EXCEPT !.pc = "train_pyramid_data"]
    /\ ld' = LoaderFrame("pipeline.load_data_pyramid", pipe.dataset, "joint_only")
    /\ UNCHANGED <<cache, meta, pyr, tax, norm>>

\* lines 214-228: load_data_pyramid is back; shuffle, to_categorical, load_model,
\* model.fit
TrainPyramidFit ==
    /\ pipe.pc = "train_pyramid_data"
    /\ ld.pc \in {"returned", "raised"}
    /\ pipe' = IF ld.pc = "raised"
               THEN [pipe EXCEPT !.pc = "raised", !.exc = ld.exc]
               ELSE LET f == [pipe EXCEPT
                                !.stages = @ \o ld.stages \o <<"shuffle", "to_categorical">>]
                        g == CallLoadModel(f, TRUE, FALSE, "fit")
                    IN  IF g.pc = "fit" THEN [g EXCEPT !.stages = @ \o <<"fit">>] ELSE g
    /\ UNCHANGED <<cache, meta, pyr, tax, norm, ld>>

\* lines 232-234: test_model calls load_data
TestModelLoadData ==
    /\ pipe.pc = "test_model"
    /\ pipe' = [pipe EXCEPT !.pc = "test_model_data"]
    /\ ld' = LoaderFrame("pipeline.load_data", pipe.dataset, "none")
    /\ UNCHANGED <<cache, meta, pyr, tax, norm>>

\* lines 234-245: load_data is back; the class count, load_model, model.predict
TestModelLoadModel ==
    /\ pipe.pc = "test_model_data"
    /\ ld.pc \in {"returned", "raised"}
    /\ pipe' = IF ld.pc = "raised"
               THEN [pipe EXCEPT !.pc = "raised", !.exc = ld.exc]
               ELSE IF pipe.dataset \notin DATASET_TO_N_CLASSES
               THEN [pipe EXCEPT !.pc = "raised", !.exc = "KeyError"]
               ELSE LET f == [pipe EXCEPT !.stages = @ \o ld.stages]
                        g == CallLoadModel(f, FALSE, FALSE, "predict")
                    IN  IF g.pc = "predict"
                        THEN [g EXCEPT !.stages = @ \o <<"predict">>] ELSE g
    /\ UNCHANGED <<cache, meta, pyr, tax, norm, ld>>

InitPipe ==
    /\ meta = [fine_label_names |-> TwoCharNames, coarse_label_names |-> CoarseNames]
    /\ cache \in {NoFile} \cup
                 {WriteFile(NoFile, PickleDump(T)) : T \in Taxonomies(meta.fine_label_names)}
    /\ pyr = PyrFrame("start", "none")
    /\ tax = TaxIdle
    /\ norm = NormIdle
    /\ ld = LoaderIdle
    /\ pipe = PipeIdle

NextPipe ==
    \/ CallLoader \/ Main
    \/ TrainModelLoadModel \/ TrainModelFit
    \/ TrainPyramidLoadData \/ TrainPyramidFit
    \/ TestModelLoadData \/ TestModelLoadModel
    \/ NextLoader

SpecPipe == InitPipe /\ [][NextPipe]_vars

----------------------------------------------------------------------------
(* Claims about load_cifar_pyramid, checked under SpecPyr *)

\* the taxonomy in the cache file
CachedTaxonomy == load_coarse_to_fine_map

\* the number of fine labels the partition policy expects in a bucket
BucketSize == TestOnlyIndex + 1

\* the global joint and gate sets of a taxonomy whose buckets hold at least
\* BucketSize names: the first 2 and the first 4 names of every bucket
JointSetOf(map) == {map[c][k] : c \in DOMAIN map, k \in 1..JointCount}
GateSetOf(map) == {map[c][k] : c \in DOMAIN map, k \in 1..GateCount}

\* the fine-label name of a label row
NameOfRow(row) == meta.fine_label_names[row[1]]

\* the positions of the rows of y whose fine-label name is in S, ascending
Positions(y, S) == SelectSeq([k \in DOMAIN y |-> k], LAMBDA k : NameOfRow(y[k]) \in S)

\* the subsequence of s at the positions idx
Pick(s, idx) == [j \in DOMAIN idx |-> s[idx[j]]]

Returned == pyr.pc = "done"

\* C1: every test sample's flag is 0 if its fine-label name is in the joint
\* set and 1 otherwise
C1_TestFlagsByName ==
    Returned =>
        /\ Len(pyr.fine_or_coarse_test) = Len(pyr.y_test)
        /\ \A k \in DOMAIN pyr.y_test :
              pyr.fine_or_coarse_test[k] =
                  IF NameOfRow(pyr.y_test[k]) \in JointSetOf(CachedTaxonomy) THEN 0 ELSE 1

\* every bucket holds exactly BucketSize names and no name is in two buckets
ExactBuckets(map) ==
    /\ \A c \in DOMAIN map : Len(map[c]) = BucketSize
    /\ \A c, d \in DOMAIN map : c # d => Range(map[c]) \cap Range(map[d]) = {}

\* C2: for N buckets of exactly 5 names, none shared: |joint| = 2N, |gate| = 4N,
\* |test-only| = N, the test-only set is the set of the 5th names, the joint set
\* is a subset of the gate set and the test-only set is disjoint from the gate set
C2_LabelSets ==
    (pyr.pc \in {"train", "test", "done"} /\ ExactBuckets(pyr.coarse_to_fine_map)) =>
        LET map == pyr.coarse_to_fine_map
            N == Cardinality(DOMAIN map)
        IN  /\ Cardinality(pyr.fine_labels_joint) = JointCount * N
            /\ Cardinality(pyr.fine_labels_gate) = GateCount * N
            /\ Cardinality(pyr.fine_labels_only_test) = N
            /\ pyr.fine_labels_only_test = {map[c][BucketSize] : c \in DOMAIN map}
            /\ pyr.fine_labels_joint \subseteq pyr.fine_labels_gate
            /\ pyr.fine_labels_only_test \cap pyr.fine_labels_gate = {}

\* C3: joint_training is the stable filter of the raw training corpus by
\* membership of the fine-label name in the global joint set: the kept images
\* and label rows, paired, in raw order, none dropped or duplicated
C3_JointTraining ==
    Returned =>
        LET idx == Positions(pyr.y_train, JointSetOf(CachedTaxonomy))
        IN  /\ pyr.X_train_joint = Pick(pyr.X_train, idx)
            /\ pyr.y_train_joint = Pick(pyr.y_train, idx)

\* a returned partition that dropped the first training sample and kept the second
C3_Witness ==
    /\ Returned
    /\ Len(pyr.X_train) = 2
    /\ pyr.X_train_joint = <<pyr.X_train[2]>>
    /\ pyr.y_train_joint = <<pyr.y_train[2]>>

\* C4: gate_training is the stable filter of the raw training corpus by the
\* global gate set, with one flag per gate sample: 0 if the name is in the joint
\* set, 1 otherwise; every joint_training sample is in gate_training with flag 0
C4_GateTraining ==
    Returned =>
        LET idx == Positions(pyr.y_train, GateSetOf(CachedTaxonomy))
            joint == JointSetOf(CachedTaxonomy)
        IN  /\ pyr.X_train_gate = Pick(pyr.X_train, idx)
            /\ pyr.y_train_gate = Pick(pyr.y_train, idx)
            /\ Len(pyr.fine_or_coarse_train_gate) = Len(pyr.X_train_gate)
            /\ \A k \in DOMAIN pyr.y_train_gate :
                  pyr.fine_or_coarse_train_gate[k] =
                      IF NameOfRow(pyr.y_train_gate[k]) \in joint THEN 0 ELSE 1
            /\ \A j \in DOMAIN pyr.X_train_joint :
                  \E k \in DOMAIN pyr.X_train_gate :
                      /\ pyr.X_train_gate[k] = pyr.X_train_joint[j]
                      /\ pyr.y_train_gate[k] = pyr.y_train_joint[j]
                      /\ pyr.fine_or_coarse_train_gate[k] = 0

\* a returned partition whose gate set holds a gate-only sample followed by a
\* joint sample
C4_Witness ==
    /\ Returned
    /\ pyr.fine_or_coarse_train_gate = <<1, 0>>
    /\ Len(pyr.X_train_joint) = 1

\* a bucket of the cached taxonomy satisfies P
SomeBucket(P(_)) ==
    cache.exists /\ \E c \in DOMAIN CachedTaxonomy : P(CachedTaxonomy[c])

\* C5: whenever a bucket's fine-label count differs from 5, the call aborts
C5_AbortsUnlessFive ==
    (pyr.pc # "start" /\ SomeBucket(LAMBDA b : Len(b) # BucketSize)) =>
        pyr.pc = "raised"

\* C6: with a bucket of fewer than 5 names the call raises IndexError while it
\* builds the label sets: no sample is filtered and nothing is returned
C6_ShortBucketRaises ==
    SomeBucket(LAMBDA b : Len(b) < BucketSize) =>
        /\ pyr.pc \in {"start", "raised"}
        /\ pyr.pc = "raised" => pyr.exc = "IndexError"
        /\ pyr = PyrFrame(pyr.pc, pyr.exc)

\* the call has raised IndexError on a taxonomy with a short bucket
C6_Witness ==
    /\ pyr.pc = "raised"
    /\ pyr.exc = "IndexError"
    /\ SomeBucket(LAMBDA b : Len(b) < BucketSize)

----------------------------------------------------------------------------
(* Claims about the taxonomy builder and its cache, checked under SpecTax *)

\* the coarse-label and fine-label name of a label row
CoarseNameOf(row) == meta.coarse_label_names[row[2]]
FineNameOf(row) == meta.fine_label_names[row[1]]

\* s is strictly ascending in the lexicographic order (so it has no duplicate)
Ascending(s) == \A k \in 1..(Len(s) - 1) : StrLess(s[k], s[k + 1])

\* the rearrangements of a sequence
Rearrangements(y) ==
    {[k \in DOMAIN y |-> y[p[k]]] :
        p \in {q \in [DOMAIN y -> DOMAIN y] : \A a, b \in DOMAIN y : a # b => q[a] # q[b]}}

\* map is the taxonomy of the training rows y
IsTaxonomyOf(map, y) ==
    /\ DOMAIN map = {CoarseNameOf(row) : row \in Range(y)}
    /\ \A c \in DOMAIN map :
          /\ Range(map[c]) = {FineNameOf(row) : row \in {r \in Range(y) : CoarseNameOf(r) = c}}
          /\ Ascending(map[c])

\* C9: the mapping create_coarse_to_fine_map returns has exactly the coarse names
\* of the training corpus as keys, each with the ascending duplicate-free list of
\* the fine names seen with it in training; the test corpus plays no part, and
\* every permutation of the training samples gives the same mapping
C9_TaxonomyOfTraining ==
    [][(tax.op = "create" /\ tax.pc = "read" /\ tax'.pc = "returned") =>
          /\ IsTaxonomyOf(tax'.result, tax.y_train)
          /\ \A y \in Rearrangements(tax.y_train) :
                CreateMap(y, meta.fine_label_names, meta.coarse_label_names) = tax'.result]_vars

\* create has returned a mapping with a bucket of two names, 'a' (fine id 2)
\* before 'ab' (fine id 1)
C9_Witness ==
    /\ tax.op = "create" /\ tax.pc = "returned"
    /\ \E c \in DOMAIN tax.result : tax.result[c] = << <<"a">>, <<"a", "b">> >>

\* C10: a load returns the mapping of the most recent save, whatever was saved
\* before it, and leaves the cache file as it is
C10_CacheRoundTrip ==
    [][(tax'.op = "load" /\ cache.exists) =>
          /\ tax'.pc = "returned"
          /\ tax'.result = tax.saved
          /\ cache' = cache]_vars

\* a load has returned the mapping of a save that replaced a file holding a
\* coarse key the mapping lacks
C10_Witness ==
    /\ tax.op = "load" /\ tax.pc = "returned"
    /\ tax.dropped
    /\ tax.result = tax.saved
    /\ tax.result # <<>>

----------------------------------------------------------------------------
(* Claims about load_cifar, checked under SpecNormTwice and SpecNorm *)

\* C7: the mean and the scale of load_cifar depend only on the samples of the
\* training split: a second run on a corpus that differs from the first only in
\* validation samples, discarded training samples or test samples computes the
\* same mean and the same scale.
C7_TrainingSplitOnly ==
    (norm.pc = "again" /\ norm.num_training > 0) =>
        /\ norm.again.mean_image = norm.mean_image
        /\ norm.again.std_deviation = norm.std_deviation

\* a divisor scale + eps with scale >= 0 is zero only when both parts are
DivisorNonZero(d) == d.scale.terms # {} \/ d.eps[1] # 0

\* the split out is the samples from..from+count-1 (0-based) of raw, each pixel
\* x turned into (x - mean) / (scale + 1e-8)
TransformedSplit(out, raw, from, count, mean, scale) ==
    /\ Len(out) = count
    /\ \A k \in 1..count : \A p \in PixelPositions :
         /\ out[k][p].num = RatSub(<<raw[from + k][p], 1>>, mean)
         /\ out[k][p].div = [scale |-> scale, eps |-> <<1, EpsInv>>]
         /\ DivisorNonZero(out[k][p].div)
         /\ scale.terms = {} => out[k][p].div.scale.terms = {} /\ out[k][p].div.eps[1] > 0

\* C8: with normalize enabled, every element of the training, validation and
\* test splits returned by load_cifar is (x - mean) / (scale + EPSILON) for the
\* one mean and the one scale of the run; the divisor is never zero, and when
\* the scale is zero each output is (x - mean) / EPSILON.
C8_OneTransform ==
    (norm.pc = "done" /\ norm.normalize) =>
        /\ TransformedSplit(norm.X_train, norm.raw_train, 0, norm.num_training,
                            norm.mean_image, norm.std_deviation)
        /\ TransformedSplit(norm.X_val, norm.raw_train, norm.num_training,
                            norm.num_validation, norm.mean_image, norm.std_deviation)
        /\ TransformedSplit(norm.X_test, norm.raw_test, 0, norm.num_test,
                            norm.mean_image, norm.std_deviation)

\* a normalised run on a zero-variance corpus with all three splits non-empty
\* and a pixel that differs from the mean
C8_Witness ==
    /\ norm.pc = "done" /\ norm.normalize
    /\ SurdIsZero(norm.std_deviation)
    /\ norm.num_training > 0 /\ norm.num_validation > 0 /\ norm.num_test > 0
    /\ norm.X_train[1][1].num[1] # 0

----------------------------------------------------------------------------
(* Frame of load_cifar_pyramid, checked under SpecPyr *)

----------------------------------------------------------------------------
(* Claims about the missing cache file, checked under SpecMissing *)

\* C11: while the cache file is missing, load_coarse_to_fine_map and
\* load_cifar_pyramid fail with the no-such-file IOError, return no taxonomy and
\* no partition, and leave the file missing; the only step that makes the file
\* exist is the return of create_coarse_to_fine_map.
C11_MissingCacheFails ==
    [][/\ (~cache.exists /\ tax'.op = "load") =>
             /\ tax'.pc = "raised" /\ tax'.exc = "IOError"
             /\ tax'.result = <<>>
             /\ ~cache'.exists
       /\ (~cache.exists /\ pyr.pc = "start" /\ pyr'.pc # "start") =>
             /\ pyr' = PyrFrame("raised", "IOError")
             /\ ~cache'.exists
       /\ (~cache.exists /\ cache'.exists) =>
             /\ tax.op = "create" /\ tax.pc = "read"
             /\ tax'.op = "create" /\ tax'.pc = "returned"
             /\ cache'.objects = <<PickleDump(tax'.result)>>]_vars

\* both functions have failed and the file is still missing
C11_Witness ==
    /\ ~cache.exists
    /\ tax.op = "load" /\ tax.pc = "raised" /\ tax.exc = "IOError"
    /\ pyr.pc = "raised" /\ pyr.exc = "IOError"

----------------------------------------------------------------------------
(* Claims about the loaders and the entry points, checked under SpecPipe *)

\* C12: once a loader (load_data or load_data_pyramid, of either file, for every
\* return_subset) has found its dataset name unrecognised, the call has failed:
\* it has raised at the detection, has loaded no corpus, has run no further
\* statement and has returned nothing, not even None.
C12_UnknownDatasetFails ==
    ld.unrecognised =>
        /\ ld.pc = "raised" /\ ld.exc \in {"SystemExit", "Exception"}
        /\ ld.loaded = "none"
        /\ ld.after = 0
        /\ ld.value = <<>>

\* stage a occurs before stage b in the log
Before(stages, a, b) ==
    \E i, j \in DOMAIN stages : i < j /\ stages[i] = a /\ stages[j] = b

\* C14: when a run of main that partitions the corpus (train_pyramid_model)
\* reaches model.fit, the steps have been taxonomy load, partition,
\* normalization, shuffle / encode, fit in this order, and the images handed to
\* shuffle and fit are normalised.
C14_NormalizedBeforeShuffle ==
    (pipe.entry = "main" /\ pipe.pc = "fit" /\ ld.loaded = "load_cifar_pyramid") =>
        /\ ld.normalized
        /\ Before(pipe.stages, "load_coarse_to_fine_map", "partition")
        /\ Before(pipe.stages, "partition", "normalize")
        /\ Before(pipe.stages, "normalize", "shuffle")
        /\ Before(pipe.stages, "shuffle", "fit")

\* C15: every call of load_model made by a run of main satisfies the assertion
\* of line 85, and no run in test mode stops at that assertion.
C15_LoadModelPrecondition ==
    pipe.entry = "main" =>
        /\ \A k \in DOMAIN pipe.load_model :
              LoadModelAssertion(pipe.load_model[k].is_training,
                                 pipe.load_model[k].get_hidden_reps)
        /\ ~(pipe.mode = "test" /\ pipe.pc = "raised" /\ pipe.exc = "AssertionError")

=============================================================================
